---- MODULE Spec2Model ----
(***************************************************************************)
(* A model of transient-minecraft: the command-line entry points, the      *)
(* construction of a cloud object, Server.start, the create_instance       *)
(* readiness polls of AWSCloud and GCloud, and the GCloud save bucket.     *)
(*                                                                         *)
(* The repository holds two source trees: src/minecraft (the first layout, *)
(* AWS only) and src/transient_minecraft/minecraft (the packaged layout,   *)
(* AWS and Google Cloud).  pkg says which one is running.                  *)
(***************************************************************************)
EXTENDS Integers, Sequences, FiniteSets, TLC

(* ---------------------------------------------------------------------- *)
(* Bounds                                                                  *)
(* ---------------------------------------------------------------------- *)

\* number of times the program is started again after it has terminated
MaxRuns == 1

\* number of put_save calls made on the bucket in the save specification
MaxPuts == 2

(* ---------------------------------------------------------------------- *)
(* Values                                                                  *)
(* ---------------------------------------------------------------------- *)

None == "None"

Packages == {"minecraft", "transient_minecraft"}

\* GCloud.SHORT_NAME, AWSCloud.SHORT_NAME
SHORT_NAME(class) == IF class = "GCloud" THEN "gcloud" ELSE "aws"

\* server.py: CLOUD_TYPES
CLOUD_TYPES == [aws |-> "AWSCloud", gcloud |-> "GCloud"]

GCloudVars == {"GCLOUD_ZONE", "GCLOUD_MACHINE_TYPE", "GCLOUD_PROJECT_ID",
               "GCLOUD_BUCKET", "GCLOUD_FIREWALL_TAG"}

AWSAuthVars == {"AWS_ACCESS_KEY_ID", "AWS_SECRET_ACCESS_KEY", "AWS_REGION"}

AWSStorageVars == {"AWS_S3_BUCKET", "AWS_S3_SAVE_KEY"}

AllVars == GCloudVars \cup AWSAuthVars \cup AWSStorageVars

\* the environments the program is started in: everything set, exactly one
\* variable missing, nothing set
Environments ==
    {AllVars, {}} \cup {AllVars \ {v} : v \in AllVars}

\* the versions of the jars that may lie in jars/
Versions == {"1.9", "1.10"}

\* StrictVersion(v).version: the numeric components of the version
StrictVersion(v) == IF v = "1.9" THEN <<1, 9>> ELSE <<1, 10>>

Latest == "latest"

\* the instance run-instances creates, and another instance of the account
NewInstanceIds == {"i-1"}

InstanceIds == NewInstanceIds \cup {"i-2"}

\* PublicIpAddress of a described instance: None while it has none
Ips == {None, "203.0.113.7"}

Instances == [InstanceId : InstanceIds, PublicIpAddress : Ips]

SeqsUpTo2(S) == {<<>>} \cup {<<a>> : a \in S} \cup {<<a, b>> : a, b \in S}

\* a reservation holds at least one instance
ReservationValues == SeqsUpTo2(Instances) \ {<<>>}

\* what describe-instances may answer: the Reservations list
DescribeResults == SeqsUpTo2(ReservationValues)

\* what zoneOperations().get may answer: the status, and whether the result
\* carries an 'error' field
OperationResults ==
    [status : {"PENDING", "RUNNING", "DONE"}, error : BOOLEAN]

VARIABLES
    pkg,            \* the source tree that is running
    environ,        \* os.environ after load_dotenv: the names that are set
    pathExists,     \* the Minecraft path exists on disk
    runs,           \* how often the program has been started again
    pc,             \* position of the running program
    entry,          \* how the program was entered
    args,           \* the parsed command line
    ctor,           \* the cloud being constructed: class and arguments
    self_attrs,     \* attributes assigned on the cloud object so far
    cloud,          \* class of the constructed cloud, None before
    called,         \* what main has called on the cloud / server
    log,            \* the steps executed so far, each with its outcome
    exc,            \* the exception in flight or propagated, None if none
    procRunning,    \* the server process is alive
    jar,            \* the jar version selected, None before
    instance_id,    \* AWS: id returned by run-instances
    public_ip,      \* AWS: public_ip of the poll loop
    instances_result, \* AWS: the Reservations of the last describe-instances
    poll_result,    \* GCloud: the last zoneOperations.get result
    reported,       \* what create_instance printed on success
    now,            \* save specification: the UTC clock
    bucket,         \* save specification: the blobs of GCLOUD_BUCKET
    world,          \* save specification: the save lying at local_path
    last_put,       \* save specification: the blob of the latest put_save
    puts,           \* save specification: number of put_save calls
    got             \* save specification: outcome of the last get_save

progVars == <<pkg, environ, pathExists, runs, pc, entry, args, ctor,
              self_attrs, cloud, called, log, exc, procRunning, jar,
              instance_id, public_ip, instances_result, poll_result,
              reported>>

saveVars == <<now, bucket, world, last_put, puts, got>>

vars == <<progVars, saveVars>>

(* ---------------------------------------------------------------------- *)
(* Helpers                                                                 *)
(* ---------------------------------------------------------------------- *)

NoArgs == [cloud |-> None, create_instance |-> FALSE]

\* no poll has answered yet
NoPoll == [status |-> None, error |-> FALSE]

\* create_instance has printed nothing yet
NoReport == [id |-> None, ip |-> None]

\* no blob, and no get_save yet
NoBlob == [name |-> <<>>, save |-> None, time |-> None, seq |-> 0]

NoGet == [called |-> FALSE, downloaded |-> FALSE, blob |-> NoBlob,
          latest |-> NoBlob, before |-> None, after |-> None]

NoCtor == [class |-> None, needs_auth |-> FALSE, needs_storage |-> FALSE]

\* one executed step: its name, whether it returned normally, and whether
\* the server process was alive when it was invoked
Step(name, ok) == [step |-> name, ok |-> ok, running |-> procRunning]

Terminated == pc \in {"returned", "raised"}

(* ---------------------------------------------------------------------- *)
(* Initial state: a machine on which nothing has run yet                  *)
(* ---------------------------------------------------------------------- *)

InitProg ==
    /\ pkg \in Packages
    /\ environ \in Environments
    /\ pathExists = FALSE
    /\ runs = 0
    /\ pc = "idle"
    /\ entry = None
    /\ args = NoArgs
    /\ ctor = NoCtor
    /\ self_attrs = {}
    /\ cloud = None
    /\ called = {}
    /\ log = <<>>
    /\ exc = None
    /\ procRunning = FALSE
    /\ jar = None
    /\ instance_id = None
    /\ public_ip = None
    /\ instances_result = <<>>
    /\ poll_result = NoPoll
    /\ reported = NoReport

\* the save bucket is left alone while the program specification runs
SaveParked ==
    /\ now = None
    /\ bucket = {}
    /\ world = None
    /\ last_put = NoBlob
    /\ puts = 0
    /\ got = NoGet

Init == InitProg /\ SaveParked

(* ---------------------------------------------------------------------- *)
(* Entry points                                                            *)
(* ---------------------------------------------------------------------- *)

\* transient_minecraft/minecraft/server.py main: parse_args and
\* CLOUD_TYPES[args.cloud](), which starts the constructor with its
\* default arguments
Main(c, ci) ==
    /\ pc = "idle"
    /\ pkg = "transient_minecraft"
    /\ entry' = "main"
    /\ args' = [cloud |-> c, create_instance |-> ci]
    /\ ctor' = [class |-> CLOUD_TYPES[c], needs_auth |-> FALSE,
                needs_storage |-> TRUE]
    /\ pc' = "construct"
    /\ UNCHANGED <<pkg, environ, pathExists, runs, self_attrs, cloud, called,
                   log, exc, procRunning, jar, instance_id, public_ip,
                   instances_result, poll_result, reported>>
    /\ UNCHANGED saveVars

\* a caller constructing a cloud directly, with arguments of its choice
Construct(class, na, ns) ==
    /\ pc = "idle"
    /\ pkg = "transient_minecraft"
    /\ entry' = "constructor"
    /\ ctor' = [class |-> class, needs_auth |-> na, needs_storage |-> ns]
    /\ pc' = "construct"
    /\ UNCHANGED <<pkg, environ, pathExists, runs, args, self_attrs, cloud,
                   called, log, exc, procRunning, jar, instance_id, public_ip,
                   instances_result, poll_result, reported>>
    /\ UNCHANGED saveVars

\* minecraft/server.py __main__: --cloud aws creates an instance through
\* the static method, without constructing a cloud; otherwise AWSCloud()
\* is constructed and the server is started
OldMain(c) ==
    /\ pc = "idle"
    /\ pkg = "minecraft"
    /\ entry' = "__main__"
    /\ args' = [cloud |-> c, create_instance |-> FALSE]
    /\ IF c = "aws"
         THEN /\ pc' = "aws_run_instances"
              /\ called' = called \cup {"create_instance"}
              /\ ctor' = ctor
         ELSE /\ pc' = "old_construct"
              /\ called' = called
              /\ ctor' = [class |-> "AWSCloud", needs_auth |-> FALSE,
                          needs_storage |-> TRUE]
    /\ UNCHANGED <<pkg, environ, pathExists, runs, self_attrs, cloud,
                   log, exc, procRunning, jar, instance_id, public_ip,
                   instances_result, poll_result, reported>>
    /\ UNCHANGED saveVars

(* ---------------------------------------------------------------------- *)
(* Construction of a cloud                                                 *)
(* ---------------------------------------------------------------------- *)

AttributeError == "AttributeError"

\* GCloud.required_env_vars
GCloud_required_env_vars == [raised |-> FALSE, names |-> GCloudVars]

\* AWSCloud.required_env_vars reads self.needs_auth and self.needs_storage:
\* reading an attribute that has not been assigned raises AttributeError
AWSCloud_required_env_vars(attrs, na, ns) ==
    IF "needs_auth" \notin attrs THEN [raised |-> TRUE, names |-> {}]
    ELSE IF "needs_storage" \notin attrs THEN [raised |-> TRUE, names |-> {}]
    ELSE [raised |-> FALSE,
          names |-> (IF na THEN AWSAuthVars ELSE {}) \cup
                    (IF ns THEN AWSStorageVars ELSE {})]

required_env_vars(class, attrs, na, ns) ==
    IF class = "GCloud" THEN GCloud_required_env_vars
    ELSE AWSCloud_required_env_vars(attrs, na, ns)

\* Cloud.__init__: for env_var in self.required_env_vars:
\*                     assert env_var in os.environ
Cloud__init__(class, attrs, na, ns, env) ==
    LET req == required_env_vars(class, attrs, na, ns) IN
    IF req.raised THEN AttributeError
    ELSE IF \E v \in req.names : v \notin env THEN "AssertionError"
    ELSE "ok"

\* the attributes AWSCloud.__init__ has assigned on self when it calls
\* super().__init__(): none, the assignments follow the call
AWSAttrsAtSuperInit == {}

\* GCloud.__init__: super().__init__(), then the compute and storage
\* clients are built
GCloud__init__ ==
    /\ pc = "construct"
    /\ ctor.class = "GCloud"
    /\ LET r == Cloud__init__("GCloud", {}, ctor.needs_auth,
                              ctor.needs_storage, environ) IN
       IF r # "ok"
         THEN /\ log' = Append(log, Step("env_check", FALSE))
              /\ exc' = r
              /\ pc' = "raised"
              /\ UNCHANGED <<cloud, self_attrs>>
         ELSE \E ok \in BOOLEAN :
              /\ log' = log \o <<Step("env_check", TRUE),
                                 Step("build_clients", ok)>>
              /\ exc' = IF ok THEN None ELSE "ClientError"
              /\ cloud' = IF ok THEN "GCloud" ELSE None
              /\ self_attrs' = IF ok THEN {"compute", "storage_client"}
                               ELSE {}
              /\ pc' = IF ok THEN "constructed" ELSE "raised"
    /\ UNCHANGED <<pkg, environ, pathExists, runs, entry, args, ctor, called,
                   procRunning, jar, instance_id, public_ip,
                   instances_result, poll_result, reported>>
    /\ UNCHANGED saveVars

\* AWSCloud.__init__ (transient_minecraft): super().__init__(), then
\* self.needs_auth and self.needs_storage are assigned, then with
\* needs_auth the AWS CLI is configured
AWSCloud__init__ ==
    /\ pc = "construct"
    /\ ctor.class = "AWSCloud"
    /\ LET r == Cloud__init__("AWSCloud", AWSAttrsAtSuperInit,
                              ctor.needs_auth, ctor.needs_storage, environ) IN
       IF r # "ok"
         THEN /\ log' = Append(log, Step("env_check", FALSE))
              /\ exc' = r
              /\ pc' = "raised"
              /\ UNCHANGED <<cloud, self_attrs>>
         ELSE \E ok \in BOOLEAN :
              /\ log' = log \o
                    (<<Step("env_check", TRUE)>> \o
                     (IF ctor.needs_auth
                        THEN <<Step("aws_configure", ok)>> ELSE <<>>))
              /\ exc' = IF ok \/ ~ctor.needs_auth THEN None
                        ELSE "CalledProcessError"
              /\ cloud' = IF ok \/ ~ctor.needs_auth THEN "AWSCloud" ELSE None
              /\ self_attrs' = {"needs_auth", "needs_storage"}
              /\ pc' = IF ok \/ ~ctor.needs_auth THEN "constructed"
                       ELSE "raised"
    /\ UNCHANGED <<pkg, environ, pathExists, runs, entry, args, ctor, called,
                   procRunning, jar, instance_id, public_ip,
                   instances_result, poll_result, reported>>
    /\ UNCHANGED saveVars

\* AWSCloud.__init__ (minecraft) with the default arguments of __main__:
\* needs_storage reads AWS_S3_BUCKET and AWS_S3_SAVE_KEY, and env.str
\* raises when the name is unset
OldAWSCloud__init__ ==
    /\ pc = "old_construct"
    /\ LET missing == (IF ctor.needs_auth
                         THEN {"AWS_ACCESS_KEY_ID", "AWS_SECRET_ACCESS_KEY"}
                         ELSE {}) \cup
                      (IF ctor.needs_storage THEN AWSStorageVars ELSE {}) IN
       IF \E v \in missing : v \notin environ
         THEN /\ log' = Append(log, Step("env_check", FALSE))
              /\ exc' = "EnvError"
              /\ pc' = "raised"
              /\ cloud' = cloud
         ELSE /\ log' = Append(log, Step("env_check", TRUE))
              /\ exc' = None
              /\ pc' = "old_start"
              /\ cloud' = "AWSCloud"
    /\ UNCHANGED <<pkg, environ, pathExists, runs, entry, args, ctor,
                   self_attrs, called, procRunning, jar, instance_id,
                   public_ip, instances_result, poll_result, reported>>
    /\ UNCHANGED saveVars

\* a caller's constructor call has returned the object
ConstructReturn ==
    /\ pc = "constructed"
    /\ entry = "constructor"
    /\ pc' = "returned"
    /\ UNCHANGED <<pkg, environ, pathExists, runs, entry, args, ctor,
                   self_attrs, cloud, called, log, exc, procRunning, jar,
                   instance_id, public_ip, instances_result, poll_result,
                   reported>>
    /\ UNCHANGED saveVars

(* ---------------------------------------------------------------------- *)
(* main: create an instance, or run the server                            *)
(* ---------------------------------------------------------------------- *)

\* the methods a cloud object has: those of Cloud and of its subclass
CloudMethods == {"create_instance", "get_save", "put_save", "kill_instance",
                 "get_env_startup_script", "get_timestamp"}

\* AWSCloud.create_instance (transient_minecraft) begins with
\* self.env_startup_script(), which is an AttributeError unless the object
\* has a method of that name
AWSCreateEntry ==
    IF "env_startup_script" \in CloudMethods THEN "aws_run_instances"
    ELSE "raised"

\* faulty variant: the two branches of main exchanged
DispatchInverted(create_instance) ==
    IF create_instance THEN "Server.start" ELSE "create_instance"

\* main: if args.create_instance: cloud.create_instance()
\*       else: Server(cloud=cloud).start()
Dispatch(create_instance) ==
    IF create_instance THEN "create_instance" ELSE "Server.start"

MainDispatch ==
    /\ pc = "constructed"
    /\ entry = "main"
    /\ LET callee == Dispatch(args.create_instance) IN
       /\ called' = called \cup {callee}
       /\ pc' = IF callee = "Server.start" THEN "mkdir"
                ELSE IF cloud = "GCloud" THEN "gcloud_insert"
                ELSE AWSCreateEntry
       /\ exc' = IF callee = "create_instance" /\ cloud = "AWSCloud"
                    /\ AWSCreateEntry = "raised"
                  THEN AttributeError ELSE exc
    /\ UNCHANGED <<pkg, environ, pathExists, runs, entry, args, ctor,
                   self_attrs, cloud, log, procRunning, jar,
                   instance_id, public_ip, instances_result, poll_result,
                   reported>>
    /\ UNCHANGED saveVars

\* minecraft/server.py __main__: server = Server(cloud=AWSCloud());
\* server.start()
OldStart ==
    /\ pc = "old_start"
    /\ called' = called \cup {"Server.start"}
    /\ pc' = "mkdir"
    /\ UNCHANGED <<pkg, environ, pathExists, runs, entry, args, ctor,
                   self_attrs, cloud, log, exc, procRunning, jar,
                   instance_id, public_ip, instances_result, poll_result,
                   reported>>
    /\ UNCHANGED saveVars

(* ---------------------------------------------------------------------- *)
(* Server.start                                                            *)
(*   try:     _create_minecraft_path, cloud.get_save,                      *)
(*            _create_minecraft_eula, _build_minecraft_cmd, Popen, wait    *)
(*   finally: cloud.put_save, cloud.kill_instance                          *)
(* ---------------------------------------------------------------------- *)

TryBody == <<"mkdir", "get_save", "eula", "build_cmd", "popen", "wait">>

FinallyBody == <<"put_save", "kill_instance">>

StartSteps == {TryBody[i] : i \in DOMAIN TryBody} \cup
              {FinallyBody[i] : i \in DOMAIN FinallyBody}

IndexIn(seq, x) == CHOOSE i \in DOMAIN seq : seq[i] = x

\* a try-body statement returned: the next statement, and after the last
\* one the finally block
OnTryOk(step) ==
    LET i == IndexIn(TryBody, step) IN
    IF i < Len(TryBody) THEN TryBody[i + 1] ELSE FinallyBody[1]

\* faulty variant: each statement of the try body in a try/except of its
\* own, so that the next statement runs after a failure
OnTryRaiseContinue(step) ==
    LET i == IndexIn(TryBody, step) IN
    IF i < Len(TryBody) THEN TryBody[i + 1] ELSE FinallyBody[1]

\* faulty variant: put_save and kill_instance after the try statement
\* instead of in a finally block
OnTryRaiseNoFinally(step) == "raised"

\* a try-body statement raised: the finally block runs with the exception
\* pending
OnTryRaise(step) == FinallyBody[1]

\* faulty variant: the finally block ends in a return, which drops the
\* pending exception
OnFinallyOkSwallow(step, pending) ==
    LET i == IndexIn(FinallyBody, step) IN
    IF i < Len(FinallyBody) THEN FinallyBody[i + 1] ELSE "returned"

\* a finally statement returned: the next statement; after the last one the
\* pending exception is re-raised, and without one start returns
OnFinallyOk(step, pending) ==
    LET i == IndexIn(FinallyBody, step) IN
    IF i < Len(FinallyBody) THEN FinallyBody[i + 1]
    ELSE IF pending THEN "raised" ELSE "returned"

\* faulty variant: kill_instance in a finally block of its own around
\* put_save
OnFinallyRaiseContinue(step) ==
    LET i == IndexIn(FinallyBody, step) IN
    IF i < Len(FinallyBody) THEN FinallyBody[i + 1] ELSE "raised"

\* a finally statement raised: the exception leaves start at once
OnFinallyRaise(step) == "raised"

\* faulty variant: process.poll() in place of process.wait()
WaitDoneNoBlock(running) == TRUE

\* process.wait() (and the exit of `with Popen`) returns once the process
\* has exited
WaitDone(running) == ~running

\* what a step of the try body does to pc, exc and log
TryStep(name, ok, error) ==
    /\ log' = Append(log, Step(name, ok))
    /\ pc' = IF ok THEN OnTryOk(name) ELSE OnTryRaise(name)
    /\ exc' = IF ok THEN exc ELSE error

\* what a step of the finally block does to pc, exc and log
FinallyStep(name, ok, error) ==
    /\ log' = Append(log, Step(name, ok))
    /\ pc' = IF ok THEN OnFinallyOk(name, exc # None)
             ELSE OnFinallyRaise(name)
    /\ exc' = IF ok THEN exc ELSE error

\* _create_minecraft_path: os.makedirs raises when the path exists
CreateMinecraftPath ==
    /\ pc = "mkdir"
    /\ \E ok \in BOOLEAN :
       /\ pathExists => ~ok
       /\ TryStep("mkdir", ok,
                  IF pathExists THEN "FileExistsError" ELSE "OSError")
       /\ pathExists' = (pathExists \/ ok)
    /\ UNCHANGED <<pkg, environ, runs, entry, args, ctor, self_attrs, cloud,
                   called, procRunning, jar, instance_id, public_ip,
                   instances_result, poll_result, reported>>
    /\ UNCHANGED saveVars

\* self.cloud.get_save(self._minecraft_path)
GetSave ==
    /\ pc = "get_save"
    /\ \E ok \in BOOLEAN : TryStep("get_save", ok, "GetSaveError")
    /\ UNCHANGED <<pkg, environ, pathExists, runs, entry, args, ctor,
                   self_attrs, cloud, called, procRunning, jar, instance_id,
                   public_ip, instances_result, poll_result, reported>>
    /\ UNCHANGED saveVars

\* _create_minecraft_eula: shutil.copy raises when eula.txt is missing
CreateMinecraftEula ==
    /\ pc = "eula"
    /\ \E ok \in BOOLEAN : TryStep("eula", ok, "EulaError")
    /\ UNCHANGED <<pkg, environ, pathExists, runs, entry, args, ctor,
                   self_attrs, cloud, called, procRunning, jar, instance_id,
                   public_ip, instances_result, poll_result, reported>>
    /\ UNCHANGED saveVars

\* StrictVersion orders by the numeric components, the first one first
VersionLeq(a, b) ==
    LET x == StrictVersion(a)
        y == StrictVersion(b) IN
    \/ x[1] < y[1]
    \/ x[1] = y[1] /\ x[2] <= y[2]

\* minecraft_versions.sort(key=StrictVersion); minecraft_versions[-1]
LastSorted(S) == CHOOSE x \in S : \A y \in S : VersionLeq(y, x)

\* _get_minecraft_jar: the versions found in jars/ and MINECRAFT_VERSION
\* decide the jar, or that an exception is raised
get_minecraft_jar(minecraft_versions, preferred_version) ==
    IF minecraft_versions = {}
      THEN [raised |-> TRUE, version |-> None]
    ELSE IF preferred_version # Latest
            /\ preferred_version \notin minecraft_versions
      THEN [raised |-> TRUE, version |-> None]
    ELSE IF preferred_version = Latest
      THEN [raised |-> FALSE, version |-> LastSorted(minecraft_versions)]
    ELSE [raised |-> FALSE, version |-> preferred_version]

\* _build_minecraft_cmd
BuildMinecraftCmd ==
    /\ pc = "build_cmd"
    /\ \E files \in SUBSET Versions, preferred \in Versions \cup {Latest} :
       LET r == get_minecraft_jar(files, preferred) IN
       /\ TryStep("build_cmd", ~r.raised, "NoJarError")
       /\ jar' = IF r.raised THEN jar ELSE r.version
    /\ UNCHANGED <<pkg, environ, pathExists, runs, entry, args, ctor,
                   self_attrs, cloud, called, procRunning, instance_id,
                   public_ip, instances_result, poll_result, reported>>
    /\ UNCHANGED saveVars

\* psutil.Popen / subprocess.Popen: the server process is launched
Popen ==
    /\ pc = "popen"
    /\ \E ok \in BOOLEAN :
       /\ TryStep("popen", ok, "PopenError")
       /\ procRunning' = ok
    /\ UNCHANGED <<pkg, environ, pathExists, runs, entry, args, ctor,
                   self_attrs, cloud, called, jar, instance_id, public_ip,
                   instances_result, poll_result, reported>>
    /\ UNCHANGED saveVars

\* the server process exits (the players stop it, or it crashes)
ProcessExit ==
    /\ procRunning
    /\ procRunning' = FALSE
    /\ UNCHANGED <<pkg, environ, pathExists, runs, pc, entry, args, ctor,
                   self_attrs, cloud, called, log, exc, jar, instance_id,
                   public_ip, instances_result, poll_result, reported>>
    /\ UNCHANGED saveVars

\* process.wait() returns
Wait ==
    /\ pc = "wait"
    /\ WaitDone(procRunning)
    /\ TryStep("wait", TRUE, None)
    /\ UNCHANGED <<pkg, environ, pathExists, runs, entry, args, ctor,
                   self_attrs, cloud, called, procRunning, jar, instance_id,
                   public_ip, instances_result, poll_result, reported>>
    /\ UNCHANGED saveVars

\* process.wait() is interrupted (KeyboardInterrupt) while it blocks
WaitInterrupted ==
    /\ pc = "wait"
    /\ procRunning
    /\ TryStep("wait", FALSE, "KeyboardInterrupt")
    /\ UNCHANGED <<pkg, environ, pathExists, runs, entry, args, ctor,
                   self_attrs, cloud, called, procRunning, jar, instance_id,
                   public_ip, instances_result, poll_result, reported>>
    /\ UNCHANGED saveVars

\* self.cloud.put_save(self._minecraft_path)
PutSave ==
    /\ pc = "put_save"
    /\ \E ok \in BOOLEAN : FinallyStep("put_save", ok, "PutSaveError")
    /\ UNCHANGED <<pkg, environ, pathExists, runs, entry, args, ctor,
                   self_attrs, cloud, called, procRunning, jar, instance_id,
                   public_ip, instances_result, poll_result, reported>>
    /\ UNCHANGED saveVars

\* self.cloud.kill_instance()
KillInstance ==
    /\ pc = "kill_instance"
    /\ \E ok \in BOOLEAN :
       FinallyStep("kill_instance", ok, "KillInstanceError")
    /\ UNCHANGED <<pkg, environ, pathExists, runs, entry, args, ctor,
                   self_attrs, cloud, called, procRunning, jar, instance_id,
                   public_ip, instances_result, poll_result, reported>>
    /\ UNCHANGED saveVars

(* ---------------------------------------------------------------------- *)
(* AWSCloud.create_instance                                                *)
(* ---------------------------------------------------------------------- *)

\* run-instances: result["Instances"][0]["InstanceId"]
AWSRunInstances ==
    /\ pc = "aws_run_instances"
    /\ \/ \E id \in NewInstanceIds :
            /\ instance_id' = id
            /\ public_ip' = None
            /\ pc' = "aws_poll"
            /\ exc' = exc
       \/ /\ pc' = "raised"
          /\ exc' = "CalledProcessError"
          /\ UNCHANGED <<instance_id, public_ip>>
    /\ UNCHANGED <<pkg, environ, pathExists, runs, entry, args, ctor,
                   self_attrs, cloud, called, log, procRunning, jar,
                   instances_result, poll_result, reported>>
    /\ UNCHANGED saveVars

\* [reservation["Instances"][0] for reservation in Reservations
\*  if reservation["Instances"][0]["InstanceId"] == instance_id]
FirstInstances(reservations, id) ==
    LET firsts == [i \in DOMAIN reservations |-> reservations[i][1]] IN
    SelectSeq(firsts, LAMBDA inst : inst.InstanceId = id)

\* faulty variant: the loop gives up on its condition and sleeps also when
\* the instance has a public IP (while True without a break)
AWSPollOutcomeNoExit(reservations, id) ==
    LET instance_result == FirstInstances(reservations, id) IN
    IF Len(instance_result) = 0
      THEN [pc |-> "raised", exc |-> "Lost instance", public_ip |-> None]
    ELSE [pc |-> "aws_sleep", exc |-> None,
          public_ip |-> instance_result[1].PublicIpAddress]

\* faulty variant: an instance missing from the result is polled for again
AWSPollOutcomeKeepPolling(reservations, id) ==
    LET instance_result == FirstInstances(reservations, id) IN
    IF Len(instance_result) = 0
      THEN [pc |-> "aws_sleep", exc |-> None, public_ip |-> None]
    ELSE LET ip == instance_result[1].PublicIpAddress IN
         [pc |-> IF ip = None THEN "aws_sleep" ELSE "aws_report",
          exc |-> None, public_ip |-> ip]

\* one pass of the loop body after describe-instances answered: raise
\* 'Lost instance', or read the public IP and sleep while it is None
AWSPollOutcome(reservations, id) ==
    LET instance_result == FirstInstances(reservations, id) IN
    IF Len(instance_result) = 0
      THEN [pc |-> "raised", exc |-> "Lost instance", public_ip |-> None]
    ELSE LET ip == instance_result[1].PublicIpAddress IN
         [pc |-> IF ip = None THEN "aws_sleep" ELSE "aws_report",
          exc |-> None, public_ip |-> ip]

\* one describe-instances poll
AWSPoll ==
    /\ pc = "aws_poll"
    /\ \/ \E res \in DescribeResults :
            LET o == AWSPollOutcome(res, instance_id) IN
            /\ instances_result' = res
            /\ pc' = o.pc
            /\ exc' = o.exc
            /\ public_ip' = IF o.pc = "raised" THEN public_ip
                            ELSE o.public_ip
       \/ /\ pc' = "raised"
          /\ exc' = "CalledProcessError"
          /\ UNCHANGED <<instances_result, public_ip>>
    /\ UNCHANGED <<pkg, environ, pathExists, runs, entry, args, ctor,
                   self_attrs, cloud, called, log, procRunning, jar,
                   instance_id, poll_result, reported>>
    /\ UNCHANGED saveVars

\* time.sleep(1), then the loop condition public_ip is None holds
AWSSleep ==
    /\ pc = "aws_sleep"
    /\ pc' = "aws_poll"
    /\ UNCHANGED <<pkg, environ, pathExists, runs, entry, args, ctor,
                   self_attrs, cloud, called, log, exc, procRunning, jar,
                   instance_id, public_ip, instances_result, poll_result,
                   reported>>
    /\ UNCHANGED saveVars

\* the loop has ended: print the instance ID and the IP
AWSReport ==
    /\ pc = "aws_report"
    /\ reported' = [id |-> instance_id, ip |-> public_ip]
    /\ pc' = "returned"
    /\ UNCHANGED <<pkg, environ, pathExists, runs, entry, args, ctor,
                   self_attrs, cloud, called, log, exc, procRunning, jar,
                   instance_id, public_ip, instances_result, poll_result>>
    /\ UNCHANGED saveVars

(* ---------------------------------------------------------------------- *)
(* GCloud.create_instance                                                  *)
(* ---------------------------------------------------------------------- *)

\* the image is looked up, the instance configured and inserted
GCloudInsert ==
    /\ pc = "gcloud_insert"
    /\ \E ok \in BOOLEAN :
       /\ pc' = IF ok THEN "gcloud_poll" ELSE "raised"
       /\ exc' = IF ok THEN exc ELSE "HttpError"
    /\ UNCHANGED <<pkg, environ, pathExists, runs, entry, args, ctor,
                   self_attrs, cloud, called, log, procRunning, jar,
                   instance_id, public_ip, instances_result, poll_result,
                   reported>>
    /\ UNCHANGED saveVars

\* faulty variant: the 'error' field of a DONE result is not looked at
GCloudPollOutcomeIgnoreError(result) ==
    IF result.status = "DONE" THEN "gcloud_get_instance" ELSE "gcloud_sleep"

\* if poll_result["status"] == "DONE":
\*     if "error" in poll_result: raise Exception(poll_result["error"])
\*     break
\* time.sleep(1)
GCloudPollOutcome(result) ==
    IF result.status = "DONE"
      THEN IF result.error THEN "raised" ELSE "gcloud_get_instance"
    ELSE "gcloud_sleep"

\* one zoneOperations().get poll
GCloudPoll ==
    /\ pc = "gcloud_poll"
    /\ \/ \E res \in OperationResults :
            /\ poll_result' = res
            /\ pc' = GCloudPollOutcome(res)
            /\ exc' = IF GCloudPollOutcome(res) = "raised"
                        THEN "OperationError" ELSE exc
       \/ /\ pc' = "raised"
          /\ exc' = "HttpError"
          /\ poll_result' = poll_result
    /\ UNCHANGED <<pkg, environ, pathExists, runs, entry, args, ctor,
                   self_attrs, cloud, called, log, procRunning, jar,
                   instance_id, public_ip, instances_result, reported>>
    /\ UNCHANGED saveVars

\* time.sleep(1), then the next pass of while True
GCloudSleep ==
    /\ pc = "gcloud_sleep"
    /\ pc' = "gcloud_poll"
    /\ UNCHANGED <<pkg, environ, pathExists, runs, entry, args, ctor,
                   self_attrs, cloud, called, log, exc, procRunning, jar,
                   instance_id, public_ip, instances_result, poll_result,
                   reported>>
    /\ UNCHANGED saveVars

\* instances().get of poll_result["targetId"], and the IP is printed
GCloudGetInstance ==
    /\ pc = "gcloud_get_instance"
    /\ \E ok \in BOOLEAN :
       /\ pc' = IF ok THEN "returned" ELSE "raised"
       /\ exc' = IF ok THEN exc ELSE "HttpError"
       /\ reported' = IF ok THEN [id |-> "targetId", ip |-> "natIP"]
                      ELSE reported
    /\ UNCHANGED <<pkg, environ, pathExists, runs, entry, args, ctor,
                   self_attrs, cloud, called, log, procRunning, jar,
                   instance_id, public_ip, instances_result, poll_result>>
    /\ UNCHANGED saveVars

(* ---------------------------------------------------------------------- *)
(* The program is started again                                            *)
(* ---------------------------------------------------------------------- *)

Restart ==
    /\ Terminated
    /\ runs < MaxRuns
    /\ runs' = runs + 1
    /\ pc' = "idle"
    /\ entry' = None
    /\ args' = NoArgs
    /\ ctor' = NoCtor
    /\ self_attrs' = {}
    /\ cloud' = None
    /\ called' = {}
    /\ log' = <<>>
    /\ exc' = None
    /\ procRunning' = FALSE
    /\ jar' = None
    /\ instance_id' = None
    /\ public_ip' = None
    /\ instances_result' = <<>>
    /\ poll_result' = NoPoll
    /\ reported' = NoReport
    /\ UNCHANGED <<pkg, environ, pathExists>>
    /\ UNCHANGED saveVars

Next ==
    \/ \E c \in DOMAIN CLOUD_TYPES, ci \in BOOLEAN : Main(c, ci)
    \/ \E class \in {"AWSCloud", "GCloud"}, na \in BOOLEAN, ns \in BOOLEAN :
          Construct(class, na, ns)
    \/ \E c \in {"aws", None} : OldMain(c)
    \/ GCloud__init__
    \/ AWSCloud__init__
    \/ OldAWSCloud__init__
    \/ ConstructReturn
    \/ MainDispatch
    \/ OldStart
    \/ CreateMinecraftPath
    \/ GetSave
    \/ CreateMinecraftEula
    \/ BuildMinecraftCmd
    \/ Popen
    \/ ProcessExit
    \/ Wait
    \/ WaitInterrupted
    \/ PutSave
    \/ KillInstance
    \/ AWSRunInstances
    \/ AWSPoll
    \/ AWSSleep
    \/ AWSReport
    \/ GCloudInsert
    \/ GCloudPoll
    \/ GCloudSleep
    \/ GCloudGetInstance
    \/ Restart

Spec == Init /\ [][Next]_vars

(* ---------------------------------------------------------------------- *)
(* The GCloud save bucket: get_save, put_save, get_timestamp              *)
(* ---------------------------------------------------------------------- *)

\* 2020-02-03 07:05:09 UTC
BaseInstant ==
    [year |-> 2020, month |-> 2, day |-> 3, hour |-> 7, minute |-> 5,
     second |-> 9]

\* UTC instants the clock may show: from the base instant, each field in
\* turn moves from one digit to two (the year moves on by one), so that the
\* zero padding of the format matters
Instants ==
    {BaseInstant,
     [BaseInstant EXCEPT !.second = 10],
     [BaseInstant EXCEPT !.minute = 30],
     [BaseInstant EXCEPT !.hour = 13],
     [BaseInstant EXCEPT !.day = 21],
     [BaseInstant EXCEPT !.month = 11],
     [BaseInstant EXCEPT !.year = 2021]}

Fields(t) == <<t.year, t.month, t.day, t.hour, t.minute, t.second>>

\* a is an earlier instant than b
Before(a, b) ==
    \E i \in 1..6 :
       /\ \A j \in 1..(i - 1) : Fields(a)[j] = Fields(b)[j]
       /\ Fields(a)[i] < Fields(b)[i]

\* the saves that may lie at local_path
Saves == {"world-a", "world-b"}

\* characters are their code points, as Python compares strings
Hyphen == <<45>>

Space == <<32>>

Colon == <<58>>

Pow10(k) == IF k = 0 THEN 1 ELSE IF k = 1 THEN 10 ELSE IF k = 2 THEN 100
            ELSE 1000

NumDigits(n) == IF n < 10 THEN 1 ELSE IF n < 100 THEN 2
                ELSE IF n < 1000 THEN 3 ELSE 4

\* faulty variant: a field printed without zero padding (%-m, str(n))
DigitsUnpadded(n, width) ==
    [i \in 1..NumDigits(n) |-> 48 + ((n \div Pow10(NumDigits(n) - i)) % 10)]

\* a strftime number field: the decimal digits of n, zero padded to width
Digits(n, width) ==
    [i \in 1..width |-> 48 + ((n \div Pow10(width - i)) % 10)]

\* strftime("%Y-%m-%d %H:%M:%S")
strftime(t) ==
    Digits(t.year, 4) \o Hyphen \o Digits(t.month, 2) \o Hyphen \o
    Digits(t.day, 2) \o Space \o Digits(t.hour, 2) \o Colon \o
    Digits(t.minute, 2) \o Colon \o Digits(t.second, 2)

\* Cloud.get_timestamp at the instant t
get_timestamp(t) == strftime(t)

\* Python's a < b on strings
StrLess(a, b) ==
    \E i \in 1..(Len(a) + 1) :
       /\ i <= Len(b)
       /\ \A j \in 1..(i - 1) : a[j] = b[j]
       /\ (i = Len(a) + 1 \/ a[i] < b[i])

\* sorted(blobs, key=lambda b: b.name)[-1]
LastSortedByName(blobs) ==
    CHOOSE b \in blobs : \A o \in blobs : o.name = b.name \/ StrLess(o.name, b.name)

\* bucket.blob(name).upload_from_filename: an object of that name is replaced
Upload(blobs, blob) == {b \in blobs : b.name # blob.name} \cup {blob}

ProgParked ==
    /\ pkg = "transient_minecraft"
    /\ environ = AllVars
    /\ pathExists = TRUE
    /\ runs = 0
    /\ pc = "idle"
    /\ entry = None
    /\ args = NoArgs
    /\ ctor = NoCtor
    /\ self_attrs = {}
    /\ cloud = "GCloud"
    /\ called = {}
    /\ log = <<>>
    /\ exc = None
    /\ procRunning = FALSE
    /\ jar = None
    /\ instance_id = None
    /\ public_ip = None
    /\ instances_result = <<>>
    /\ poll_result = NoPoll
    /\ reported = NoReport

\* an empty bucket, a save at local_path, the clock at some instant
InitSave ==
    /\ ProgParked
    /\ now \in Instants
    /\ bucket = {}
    /\ world \in Saves
    /\ last_put = NoBlob
    /\ puts = 0
    /\ got = NoGet

\* time passes
Tick ==
    /\ \E t \in Instants : Before(now, t) /\ now' = t
    /\ UNCHANGED <<bucket, world, last_put, puts, got>>
    /\ UNCHANGED progVars

\* the server run changes the save at local_path
Play ==
    /\ \E w \in Saves : w # world /\ world' = w
    /\ UNCHANGED <<now, bucket, last_put, puts, got>>
    /\ UNCHANGED progVars

\* GCloud.put_save: the save is zipped and uploaded under the timestamp
GCloudPutSave ==
    /\ puts < MaxPuts
    /\ LET blob == [name |-> get_timestamp(now), save |-> world,
                    time |-> now, seq |-> puts + 1] IN
       /\ bucket' = Upload(bucket, blob)
       /\ last_put' = blob
    /\ puts' = puts + 1
    /\ UNCHANGED <<now, world, got>>
    /\ UNCHANGED progVars

\* GCloud.get_save: nothing with an empty bucket; otherwise the blob with
\* the greatest name is downloaded and extracted to local_path
GCloudGetSave ==
    /\ IF bucket = {}
         THEN /\ world' = world
              /\ got' = [called |-> TRUE, downloaded |-> FALSE,
                         blob |-> NoBlob, latest |-> last_put,
                         before |-> world, after |-> world']
         ELSE LET latest_blob == LastSortedByName(bucket) IN
              /\ world' = latest_blob.save
              /\ got' = [called |-> TRUE, downloaded |-> TRUE,
                         blob |-> latest_blob, latest |-> last_put,
                         before |-> world, after |-> world']
    /\ UNCHANGED <<now, bucket, last_put, puts>>
    /\ UNCHANGED progVars

NextSave == Tick \/ Play \/ GCloudPutSave \/ GCloudGetSave

SpecSave == InitSave /\ [][NextSave]_vars

(* ---------------------------------------------------------------------- *)
(* Properties of Server.start                                              *)
(* ---------------------------------------------------------------------- *)

\* the steps of Server.start executed so far in this execution
StartLog == SelectSeq(log, LAMBDA e : e.step \in StartSteps)

StartRan == "Server.start" \in called

NoStepRaised == \A i \in DOMAIN StartLog : StartLog[i].ok

Count(name) == Cardinality({i \in DOMAIN StartLog : StartLog[i].step = name})

\* the order the steps are to be observed in
ListedOrder == <<"mkdir", "get_save", "eula", "popen", "wait", "put_save",
                 "kill_instance">>

ListedLog ==
    SelectSeq(StartLog,
              LAMBDA e : \E i \in DOMAIN ListedOrder : ListedOrder[i] = e.step)

\* C1: in an execution of Server.start in which no step raises, the steps
\* run in the order create path, get_save, create EULA, launch, wait,
\* put_save, kill_instance: what has run so far is a prefix of that order,
\* a start that returned ran all of them, and put_save is invoked only
\* when the server process is no longer running.
C1_StepOrder ==
    (StartRan /\ NoStepRaised) =>
       /\ Len(ListedLog) <= Len(ListedOrder)
       /\ \A i \in DOMAIN ListedLog : ListedLog[i].step = ListedOrder[i]
       /\ (pc = "returned" => Len(ListedLog) = Len(ListedOrder))
       /\ \A i \in DOMAIN ListedLog :
             ListedLog[i].step = "put_save" => ~ListedLog[i].running

\* a start that returned normally after a server process ran and exited
C1_Witness ==
    /\ StartRan
    /\ pc = "returned"
    /\ NoStepRaised
    /\ Count("popen") = 1
    /\ Count("put_save") = 1

\* C2: kill_instance is invoked only after put_save has returned without
\* raising, on success and on error paths; when put_save raised,
\* kill_instance is not invoked.
C2_KillAfterPut ==
    /\ \A i \in DOMAIN StartLog :
          StartLog[i].step = "kill_instance" =>
             \E j \in 1..(i - 1) :
                StartLog[j].step = "put_save" /\ StartLog[j].ok
    /\ (\E j \in DOMAIN StartLog :
           StartLog[j].step = "put_save" /\ ~StartLog[j].ok)
       => Count("kill_instance") = 0

\* an error path on which the instance is killed: a step of the try body
\* raised, put_save returned and kill_instance was invoked
C2_Witness ==
    /\ StartRan
    /\ \E i \in DOMAIN StartLog :
          StartLog[i].step \notin {"put_save", "kill_instance"}
          /\ ~StartLog[i].ok
    /\ Count("kill_instance") = 1

\* C3: an execution of Server.start that has ended has invoked put_save
\* exactly once, whichever earlier step raised; get_save, the launch and
\* kill_instance are invoked at most once, and no step runs twice.
C3_PutSaveOnce ==
    StartRan =>
       /\ (Terminated => Count("put_save") = 1)
       /\ Count("get_save") <= 1
       /\ Count("popen") <= 1
       /\ Count("kill_instance") <= 1
       /\ \A i, j \in DOMAIN StartLog :
             StartLog[i].step = StartLog[j].step => i = j

\* an execution that ended after its first step, creating the path, raised
C3_Witness ==
    /\ StartRan
    /\ Terminated
    /\ Len(StartLog) >= 2
    /\ StartLog[1].step = "mkdir"
    /\ ~StartLog[1].ok
    /\ Count("put_save") = 1

\* C4: Server.start swallows no error: an execution that has ended returned
\* normally exactly when none of its steps raised, and otherwise it raised
\* an exception to its caller.
C4_NoSwallow ==
    (StartRan /\ Terminated) =>
       /\ (pc = "returned") = NoStepRaised
       /\ (pc = "raised" => exc # None)

\* a step of the try body raised, both steps of the finally block returned,
\* and start raised
C4_Witness ==
    /\ StartRan
    /\ pc = "raised"
    /\ ~NoStepRaised
    /\ \E i \in DOMAIN StartLog :
          StartLog[i].step = "kill_instance" /\ StartLog[i].ok

\* C5: whenever put_save is invoked, get_save has completed successfully
\* before it in the same execution.
C5_RestoredBeforePersisted ==
    \A i \in DOMAIN StartLog :
       StartLog[i].step = "put_save" =>
          \E j \in 1..(i - 1) :
             StartLog[j].step = "get_save" /\ StartLog[j].ok

(* ---------------------------------------------------------------------- *)
(* Properties of main and of the constructors                             *)
(* ---------------------------------------------------------------------- *)

StartPcs == StartSteps

CreatePcs == {"aws_run_instances", "aws_poll", "aws_sleep", "aws_report",
              "gcloud_insert", "gcloud_poll", "gcloud_sleep",
              "gcloud_get_instance"}

\* C6: main with --create-instance calls create_instance on the selected
\* cloud and never runs Server.start; without the flag it runs Server.start
\* and never calls create_instance; the cloud constructed is the one whose
\* key is the --cloud argument, and once it is constructed main calls one
\* of the two.
C6_DispatchExclusive ==
    entry = "main" =>
       /\ args.create_instance =>
             /\ "Server.start" \notin called
             /\ StartLog = <<>>
             /\ pc \notin StartPcs
       /\ ~args.create_instance =>
             /\ "create_instance" \notin called
             /\ pc \notin CreatePcs
             /\ reported = NoReport
       /\ cloud # None => SHORT_NAME(cloud) = args.cloud
       /\ (pc \in StartPcs \cup CreatePcs \/ (Terminated /\ cloud # None)) =>
             called = {IF args.create_instance THEN "create_instance"
                       ELSE "Server.start"}

\* main --cloud gcloud --create-instance has created an instance
C6_Witness ==
    /\ entry = "main"
    /\ args.create_instance
    /\ "create_instance" \in called
    /\ pc = "returned"
    /\ reported # NoReport

\* the variables the documentation of required_env_vars asks for
RequiredOf(class, na, ns) ==
    IF class = "GCloud" THEN GCloudVars
    ELSE (IF na THEN AWSAuthVars ELSE {}) \cup
         (IF ns THEN AWSStorageVars ELSE {})

\* C7: constructing a cloud first checks its required_env_vars against the
\* environment: the check fails with an assertion error when one of them is
\* unset and passes when all of them are set.
C7_EnvCheck ==
    (entry \in {"main", "constructor"} /\ log # <<>>) =>
       LET req == RequiredOf(ctor.class, ctor.needs_auth, ctor.needs_storage)
       IN /\ log[1].step = "env_check"
          /\ (req \subseteq environ) = log[1].ok
          /\ ~log[1].ok => exc = "AssertionError"

(* ---------------------------------------------------------------------- *)
(* Properties of the GCloud save bucket                                   *)
(* ---------------------------------------------------------------------- *)

\* C8: blob names are 19-character timestamps whose string order is the
\* order of the instants they were written at; a get_save after one or more
\* put_save calls downloads the blob of the most recent put_save and
\* extracts its save, and a get_save on an empty bucket downloads nothing
\* and leaves the local path as it was.
C8_LatestSave ==
    /\ \A a \in bucket : Len(a.name) = 19
    /\ \A a, b \in bucket : StrLess(a.name, b.name) = Before(a.time, b.time)
    /\ got.called =>
          IF got.latest = NoBlob
            THEN ~got.downloaded /\ got.after = got.before
            ELSE /\ got.downloaded
                 /\ got.blob = got.latest
                 /\ got.after = got.latest.save

\* a get_save that found two blobs and replaced the local save by the one
\* of the second put_save
C8_Witness ==
    /\ got.called
    /\ got.downloaded
    /\ got.blob.seq = 2
    /\ got.before # got.after
    /\ Cardinality(bucket) = 2

(* ---------------------------------------------------------------------- *)
(* Properties of create_instance                                          *)
(* ---------------------------------------------------------------------- *)

\* the poll result holds a reservation whose first instance has the id
HasFirst(res, id) == \E i \in DOMAIN res : res[i][1].InstanceId = id

\* the public IP of the first such reservation's first instance
FirstIp(res, id) ==
    LET i == CHOOSE k \in DOMAIN res :
                /\ res[k][1].InstanceId = id
                /\ \A m \in 1..(k - 1) : res[m][1].InstanceId # id
    IN res[i][1].PublicIpAddress

\* C9: AWSCloud.create_instance reports the instance id of run-instances
\* with a non-null public IP read from the last poll; it sleeps to poll
\* again exactly when that poll showed the instance without a public IP,
\* and it raises 'Lost instance' when no reservation's first instance has
\* the id.
C9_AWSPoll ==
    /\ (pc = "aws_report" \/ (instance_id # None /\ reported # NoReport)) =>
          /\ HasFirst(instances_result, instance_id)
          /\ public_ip # None
          /\ public_ip = FirstIp(instances_result, instance_id)
    /\ (instance_id # None /\ reported # NoReport) =>
          /\ reported.id = instance_id
          /\ reported.ip = public_ip
    /\ pc = "aws_sleep" =>
          /\ HasFirst(instances_result, instance_id)
          /\ FirstIp(instances_result, instance_id) = None
    /\ exc = "Lost instance" =>
          /\ pc = "raised"
          /\ ~HasFirst(instances_result, instance_id)
          /\ reported = NoReport

\* the instance was reported from a poll whose second reservation held it
C9_Witness ==
    /\ instance_id # None
    /\ reported # NoReport
    /\ Len(instances_result) = 2
    /\ instances_result[1][1].InstanceId # instance_id

\* C10: GCloud.create_instance fetches and reports the instance only after
\* a poll answered DONE without an 'error' field; DONE with 'error' raises
\* and reports nothing; any other status leads to a sleep and another poll.
C10_GCloudPoll ==
    /\ (pc = "gcloud_get_instance" \/ (cloud = "GCloud" /\ reported # NoReport))
          => poll_result.status = "DONE" /\ ~poll_result.error
    /\ pc = "gcloud_sleep" =>
          poll_result.status \in {"PENDING", "RUNNING"}
    /\ exc = "OperationError" =>
          /\ pc = "raised"
          /\ poll_result.status = "DONE"
          /\ poll_result.error
          /\ reported = NoReport

\* the instance was created and its IP printed
C10_Witness ==
    /\ cloud = "GCloud"
    /\ "create_instance" \in called
    /\ reported # NoReport
    /\ pc = "returned"

(* ---------------------------------------------------------------------- *)
(* Launch of the server process                                            *)
(* ---------------------------------------------------------------------- *)

\* what has to succeed before the server process is launched
LaunchPrerequisites == {"mkdir", "get_save", "eula", "build_cmd"}

\* C12: the server process is launched only after directory creation,
\* get_save, EULA creation and jar selection have each succeeded in the same
\* execution; once one of them has raised, no launch happens in that
\* execution and no server process is alive.
C12_LaunchAfterSetup ==
    /\ \A i \in DOMAIN StartLog :
          StartLog[i].step = "popen" =>
             \A s \in LaunchPrerequisites :
                \E j \in 1..(i - 1) : StartLog[j].step = s /\ StartLog[j].ok
    /\ (\E j \in DOMAIN StartLog :
           StartLog[j].step \in LaunchPrerequisites /\ ~StartLog[j].ok)
       => (Count("popen") = 0 /\ ~procRunning)
    /\ procRunning => Count("popen") = 1

\* a second start that ended without a launch: the first start had created
\* the Minecraft path, so creating it again raised
C12_Witness ==
    /\ runs >= 1
    /\ StartRan
    /\ Terminated
    /\ pathExists
    /\ StartLog # <<>>
    /\ StartLog[1].step = "mkdir"
    /\ ~StartLog[1].ok
    /\ Count("popen") = 0

(* ---------------------------------------------------------------------- *)
(* Termination of the readiness polls                                      *)
(* ---------------------------------------------------------------------- *)

AWSLoop == {"aws_poll", "aws_sleep"}

GCloudLoop == {"gcloud_poll", "gcloud_sleep"}

\* a describe-instances poll that answers, and whose answer shows the
\* instance with a public IP or does not show it at all
AWSAnswersReady ==
    /\ AWSPoll
    /\ exc' # "CalledProcessError"
    /\ HasFirst(instances_result', instance_id) =>
          FirstIp(instances_result', instance_id) # None

\* a zoneOperations().get poll that answers with status DONE
GCloudAnswersDone ==
    /\ GCloudPoll
    /\ exc' # "HttpError"
    /\ poll_result'.status = "DONE"

\* the polls read nothing of the environment: the program is started with
\* every variable set, so that create_instance is reached on both clouds
InitLive == Init /\ environ = AllVars

\* The program is single-threaded and blocks in each call, so a step that
\* is possible is eventually taken (weak fairness of the poll and of the
\* sleep, and of the statements after the loop).  Readiness eventually arriving, as the polls go on, is strong
\* fairness of the polls that answer ready.
SpecLive ==
    /\ InitLive
    /\ [][Next]_vars
    /\ WF_vars(AWSPoll)
    /\ WF_vars(AWSSleep)
    /\ WF_vars(GCloudPoll)
    /\ WF_vars(GCloudSleep)
    /\ WF_vars(AWSReport)
    /\ WF_vars(GCloudGetInstance)
    /\ SF_vars(AWSAnswersReady)
    /\ SF_vars(GCloudAnswersDone)

\* C11: when readiness eventually arrives (the AWS instance shows a public
\* IP or is gone, the GCloud operation is DONE), a create_instance that is
\* in its poll loop terminates.  The loop has no attempt limit or timeout:
\* a sleep is always followed by another poll, a poll that shows the
\* instance without a public IP, or a status other than DONE, is always
\* followed by a sleep, and the loop is left only by a poll.
C11_PollTermination ==
    /\ (pc \in AWSLoop \cup GCloudLoop) ~> Terminated
    /\ [][/\ pc = "aws_sleep" => pc' = "aws_poll"
          /\ pc = "gcloud_sleep" => pc' = "gcloud_poll"
          /\ (pc = "aws_poll" /\ instances_result' # instances_result
              /\ HasFirst(instances_result', instance_id)
              /\ FirstIp(instances_result', instance_id) = None)
                => pc' = "aws_sleep"
          /\ (pc = "gcloud_poll" /\ poll_result' # poll_result
              /\ poll_result'.status # "DONE")
                => pc' = "gcloud_sleep"]_vars

\* the AWS loop asleep after a poll that showed the instance without a
\* public IP
C11_Witness ==
    /\ pc = "aws_sleep"
    /\ HasFirst(instances_result, instance_id)
    /\ FirstIp(instances_result, instance_id) = None
    /\ public_ip = None

====
